---- MODULE Spec2Model ----
(***************************************************************************)
(* Share accounting of the two vault contracts of xVault-Contracts:        *)
(*   cw-vault     (single-pool vault, src/cw-vault/src/contract.rs)         *)
(*   Index-vault  (multi-pool vault,  src/Index-vault/src/contract.rs)      *)
(* One contract call is one action.  A call runs the handler on the        *)
(* contract storage, then the host executes the messages the handler       *)
(* returned; an error, a panic or a failed message discards the storage    *)
(* writes of the call (the host's transaction boundary).  The record       *)
(* `last` keeps what the handler of the most recent call did: its result,  *)
(* the storage keys it wrote in order, the storage it left, its messages.  *)
(***************************************************************************)
EXTENDS Integers, Sequences, FiniteSets, TLC

\* Largest value of the unsigned integer type of amounts.  The contracts
\* use Uint128; the model keeps the same checked/panicking arithmetic at a
\* narrower width.
MaxUint == 6

\* Largest amount an outside party adds to the vault's token balance at once.
MaxDonate == 2

\* Largest underlying value of one receipt token quoted by a pool.
MaxPrice == 2

Holders == {"h1", "h2"}

Variants == {"single", "multi"}

Vault == "vault"

\* ---------------------------------------------------------------------
\* State
\* ---------------------------------------------------------------------
VARIABLES
    variant,        \* which contract is deployed
    CONFIG,         \* Item<Config>: <<>> when not saved, <<cfg>> when saved
    SWAPVAR,        \* Item<Swapvar> (multi-pool vault only)
    TOTAL_SUPPLY,   \* Item<Uint128>
    BALANCE_OF,     \* Map<Addr, Uint128>: function on the saved keys
    contract_info,  \* cw2 item written by set_contract_version
    tok,            \* underlying-token balance of the vault
    rec,            \* receipt-token balances of the vault, per pool
    price,          \* underlying quoted by pool i for one receipt token
    last            \* what the handler of the most recent call did

vars == <<variant, CONFIG, SWAPVAR, TOTAL_SUPPLY, BALANCE_OF, contract_info,
          tok, rec, price, last>>

storeVars == <<CONFIG, SWAPVAR, TOTAL_SUPPLY, BALANCE_OF, contract_info>>

worldVars == <<tok, rec, price>>

\* ---------------------------------------------------------------------
\* Uint128 arithmetic
\* ---------------------------------------------------------------------
Uint == 0..MaxUint

\* checked_mul: Err(overflow) when the product does not fit.
checked_mul(a, b) ==
    IF a * b > MaxUint THEN [ok |-> FALSE, v |-> 0] ELSE [ok |-> TRUE, v |-> a * b]

\* checked_div: Err(divide by zero) when the divisor is zero, else floor.
checked_div(a, b) ==
    IF b = 0 THEN [ok |-> FALSE, v |-> 0] ELSE [ok |-> TRUE, v |-> a \div b]

\* `+` / `+=` on Uint128 panic on overflow.
AddPanics(a, b) == a + b > MaxUint

\* `-` / `-=` on Uint128 panic on underflow.
SubPanics(a, b) == b > a

\* ---------------------------------------------------------------------
\* Storage helpers (cw_storage_plus Item / Map)
\* ---------------------------------------------------------------------
ItemPresent(item) == item # <<>>

ItemGet(item) == item[1]

\* BALANCE_OF.load(..).unwrap_or(Uint128::zero())
LoadBalanceOrZero(b, a) == IF a \in DOMAIN b THEN b[a] ELSE 0

\* Variant of SaveBalance that writes the value to every entry of the map.
SaveBalance_All(b, a, v) == [x \in (DOMAIN b) \cup {a} |-> v]

\* Variant of SaveBalance that creates an entry but never overwrites one.
SaveBalance_InsertOnly(b, a, v) ==
    IF a \in DOMAIN b THEN b ELSE [x \in (DOMAIN b) \cup {a} |-> IF x = a THEN v ELSE b[x]]

\* BALANCE_OF.save(.., a, v)
SaveBalance(b, a, v) == [x \in (DOMAIN b) \cup {a} |-> IF x = a THEN v ELSE b[x]]

RECURSIVE SumOver(_, _)
SumOver(b, S) ==
    IF S = {} THEN 0
    ELSE LET x == CHOOSE y \in S : TRUE IN b[x] + SumOver(b, S \ {x})

\* Sum of all ledger balances, absent entries counting as 0.
LedgerSum(b) == SumOver(b, DOMAIN b)

NoBalances == [x \in {} |-> 0]

\* ---------------------------------------------------------------------
\* Messages returned to the host (CosmosMsg::Wasm(Execute{..}))
\* ---------------------------------------------------------------------
Token == "token"

Pools == {1, 2}

PoolAddr(i) == IF i = 1 THEN "lp_pool_1" ELSE "lp_pool_2"

RecToken(i) == IF i = 1 THEN "rec_token_1" ELSE "rec_token_2"

\* Cw20ExecuteMsg::TransferFrom sent to the token contract
TransferFromMsg(token, owner, recipient, amount) ==
    [kind |-> "TransferFrom", contract |-> token, owner |-> owner,
     recipient |-> recipient, amount |-> amount, input_token |-> "-"]

\* Cw20ExecuteMsg::Transfer sent to the token contract
TransferMsg(token, recipient, amount) ==
    [kind |-> "Transfer", contract |-> token, owner |-> Vault,
     recipient |-> recipient, amount |-> amount, input_token |-> "-"]

\* Cw20ExecuteMsg::IncreaseAllowance sent to token_addr for spender
get_cw20_increase_allowance_msg(token_addr, spender, amount) ==
    [kind |-> "IncreaseAllowance", contract |-> token_addr, owner |-> Vault,
     recipient |-> spender, amount |-> amount, input_token |-> "-"]

\* wasmswap ExecuteMsg::Swap sent to a pool
SwapMsg(pool, input_token, input_amount) ==
    [kind |-> "Swap", contract |-> pool, owner |-> Vault,
     recipient |-> Vault, amount |-> input_amount, input_token |-> input_token]

\* ---------------------------------------------------------------------
\* Read-only queries of the collaborators
\* ---------------------------------------------------------------------
\* cw20 Balance query; qok = FALSE when the collaborator query fails.
get_token_balance_of(qok, held) == [ok |-> qok, v |-> held]

\* wasmswap Token2ForToken1Price query of pool lp for `amount` receipt
\* tokens; the answer is a Uint128, so a quote that does not fit is a
\* failed query.
token_conversion(qok, lp, amount) ==
    IF ~qok \/ amount * price[lp] > MaxUint
    THEN [ok |-> FALSE, v |-> 0]
    ELSE [ok |-> TRUE, v |-> amount * price[lp]]

\* ---------------------------------------------------------------------
\* Handler outcomes
\* ---------------------------------------------------------------------
\* result: "ok", an "err_*" (Err returned) or a "panic_*" (abort);
\* writes: storage keys saved, in order; ts/bal: TOTAL_SUPPLY / BALANCE_OF
\* as the handler left them; msgs: the Response's messages; V: the vault
\* value the handler read (-1 when it never got one); out: shares minted
\* or amount redeemed.
Outcome(result, writes, ts, bal, msgs, V, out) ==
    [result |-> result, writes |-> writes, ts |-> ts, bal |-> bal,
     msgs |-> msgs, V |-> V, out |-> out]

KeyTotalSupply == <<"total_supply">>

KeyBalance(a) == <<"balance_of", a>>

\* A computed value or the way the computation stopped.
Val(v) == [result |-> "ok", v |-> v]

Stop(result) == [result |-> result, v |-> 0]

\* Variant of cw_deposit_shares that prices with the inverse ratio,
\* amount * V / TotalSupply.
cw_deposit_shares_Inverted(amount, total_supply, balance_contract) ==
    IF total_supply = 0 THEN Val(amount)
    ELSE
    LET mul == checked_mul(amount, balance_contract) IN
    IF ~mul.ok THEN Stop("err_overflow")
    ELSE
    LET div == checked_div(mul.v, total_supply) IN
    IF ~div.ok THEN Stop("err_divide_by_zero") ELSE Val(div.v)

\* Variant of cw_deposit_shares that pegs 1:1 only while the vault is empty
\* of tokens as well as of shares.
cw_deposit_shares_NoBootstrap(amount, total_supply, balance_contract) ==
    IF total_supply = 0 /\ balance_contract = 0 THEN Val(amount)
    ELSE
    LET mul == checked_mul(amount, total_supply) IN
    IF ~mul.ok THEN Stop("err_overflow")
    ELSE
    LET div == checked_div(mul.v, balance_contract) IN
    IF ~div.ok THEN Stop("err_divide_by_zero") ELSE Val(div.v)

\* Variant of cw_deposit_shares that rounds the quotient up.
cw_deposit_shares_Ceil(amount, total_supply, balance_contract) ==
    IF total_supply = 0 THEN Val(amount)
    ELSE
    LET mul == checked_mul(amount, total_supply) IN
    IF ~mul.ok THEN Stop("err_overflow")
    ELSE IF balance_contract = 0 THEN Stop("err_divide_by_zero")
    ELSE Val((mul.v + balance_contract - 1) \div balance_contract)

\* cw-vault execute_deposit, the share pricing rule
cw_deposit_shares(amount, total_supply, balance_contract) ==
    IF total_supply = 0 THEN Val(amount)
    ELSE
    LET mul == checked_mul(amount, total_supply) IN
    IF ~mul.ok THEN Stop("err_overflow")
    ELSE
    LET div == checked_div(mul.v, balance_contract) IN
    IF ~div.ok THEN Stop("err_divide_by_zero") ELSE Val(div.v)

\* Variant of cw_withdraw_amount that prices with the inverse ratio,
\* share * TotalSupply / V.
cw_withdraw_amount_Inverted(share, token_bal, total_supply) ==
    LET mul == checked_mul(share, total_supply) IN
    IF ~mul.ok THEN Stop("err_overflow")
    ELSE
    LET div == checked_div(mul.v, token_bal) IN
    IF ~div.ok THEN Stop("err_divide_by_zero") ELSE Val(div.v)

\* Variant of cw_withdraw_amount that rounds the quotient up.
cw_withdraw_amount_Ceil(share, token_bal, total_supply) ==
    LET mul == checked_mul(share, token_bal) IN
    IF ~mul.ok THEN Stop("err_overflow")
    ELSE IF total_supply = 0 THEN Stop("err_divide_by_zero")
    ELSE Val((mul.v + total_supply - 1) \div total_supply)

\* cw-vault execute_withdraw, the redeemed amount
cw_withdraw_amount(share, token_bal, total_supply) ==
    LET mul == checked_mul(share, token_bal) IN
    IF ~mul.ok THEN Stop("err_overflow")
    ELSE
    LET div == checked_div(mul.v, total_supply) IN
    IF ~div.ok THEN Stop("err_divide_by_zero") ELSE Val(div.v)

\* Index-vault execute_deposit, the share pricing rule
index_deposit_shares(amount, total_supply, balance_contract) ==
    IF total_supply = 0 THEN Val(amount)
    ELSE
    LET mul == checked_mul(amount, total_supply) IN
    IF ~mul.ok THEN Stop("err_overflow")
    ELSE
    LET div == checked_div(mul.v, balance_contract) IN
    IF ~div.ok THEN Stop("err_divide_by_zero") ELSE Val(div.v)

\* Variant of index_token_bal that adds the receipt-token balances without
\* converting them through the pools.
index_token_bal_Raw(qok, token_1_bal, token_2_bal) ==
    IF ~token_1_bal.ok \/ ~token_2_bal.ok THEN Stop("err_query")
    ELSE IF AddPanics(token_1_bal.v, token_2_bal.v) THEN Stop("panic_add")
    ELSE Val(token_1_bal.v + token_2_bal.v)

\* Index-vault execute_withdraw, the vault value: both receipt-token
\* holdings converted through their pools and added (`+` panics).
index_token_bal(qok, token_1_bal, token_2_bal) ==
    IF ~token_1_bal.ok \/ ~token_2_bal.ok THEN Stop("err_query")
    ELSE
    LET am1 == token_conversion(qok, 1, token_1_bal.v)
        am2 == token_conversion(qok, 2, token_2_bal.v)
    IN
    IF ~am1.ok \/ ~am2.ok THEN Stop("err_query")
    ELSE IF AddPanics(am1.v, am2.v) THEN Stop("panic_add")
    ELSE Val(am1.v + am2.v)

\* Index-vault execute_withdraw, the redeemed amount
index_withdraw_amount(share, token_bal, total_supply) ==
    LET mul == checked_mul(share, token_bal) IN
    IF ~mul.ok THEN Stop("err_overflow")
    ELSE
    LET div == checked_div(mul.v, total_supply) IN
    IF ~div.ok THEN Stop("err_divide_by_zero") ELSE Val(div.v)

\* cw-vault execute_deposit
cw_execute_deposit(sender, amount, qok) ==
    LET stop(r, w, ts, V) == Outcome(r, w, ts, BALANCE_OF, <<>>, V, 0) IN
    IF ~ItemPresent(CONFIG) \/ ~ItemPresent(TOTAL_SUPPLY)
    THEN stop("err_not_found", <<>>, TOTAL_SUPPLY, -1)
    ELSE
    LET config == ItemGet(CONFIG)
        total_supply == ItemGet(TOTAL_SUPPLY)
        balance == LoadBalanceOrZero(BALANCE_OF, sender)
        balance_contract == get_token_balance_of(qok, tok)
    IN
    IF ~balance_contract.ok THEN stop("err_query", <<>>, TOTAL_SUPPLY, -1)
    ELSE
    LET V == balance_contract.v
        priced == cw_deposit_shares(amount, total_supply, V)
    IN
    IF priced.result # "ok" THEN stop(priced.result, <<>>, TOTAL_SUPPLY, V)
    ELSE
    LET shares == priced.v IN
    IF AddPanics(total_supply, shares) THEN stop("panic_add", <<>>, TOTAL_SUPPLY, V)
    ELSE
    LET total_supply2 == total_supply + shares IN
    IF AddPanics(balance, shares)
    THEN stop("panic_add", <<KeyTotalSupply>>, <<total_supply2>>, V)
    ELSE
    Outcome("ok", <<KeyTotalSupply, KeyBalance(sender)>>, <<total_supply2>>,
            SaveBalance(BALANCE_OF, sender, balance + shares),
            <<TransferFromMsg(config.token, sender, Vault, amount)>>, V, shares)

\* cw-vault execute_withdraw
cw_execute_withdraw(sender, share, qok) ==
    LET stop(r, w, ts, V) == Outcome(r, w, ts, BALANCE_OF, <<>>, V, 0) IN
    IF ~ItemPresent(CONFIG) \/ ~ItemPresent(TOTAL_SUPPLY)
    THEN stop("err_not_found", <<>>, TOTAL_SUPPLY, -1)
    ELSE
    LET config == ItemGet(CONFIG)
        total_supply == ItemGet(TOTAL_SUPPLY)
        balance == LoadBalanceOrZero(BALANCE_OF, sender)
        token_bal == get_token_balance_of(qok, tok)
    IN
    IF ~token_bal.ok THEN stop("err_query", <<>>, TOTAL_SUPPLY, -1)
    ELSE
    LET V == token_bal.v
        redeemed == cw_withdraw_amount(share, V, total_supply)
    IN
    IF redeemed.result # "ok" THEN stop(redeemed.result, <<>>, TOTAL_SUPPLY, V)
    ELSE
    LET amount == redeemed.v IN
    IF SubPanics(total_supply, share) THEN stop("panic_sub", <<>>, TOTAL_SUPPLY, V)
    ELSE
    LET total_supply2 == total_supply - share IN
    IF SubPanics(balance, share)
    THEN stop("panic_sub", <<KeyTotalSupply>>, <<total_supply2>>, V)
    ELSE
    Outcome("ok", <<KeyTotalSupply, KeyBalance(sender)>>, <<total_supply2>>,
            SaveBalance(BALANCE_OF, sender, balance - share),
            <<TransferMsg(config.token, sender, amount)>>, V, amount)

\* Variant of index_deposit_swap_input that routes the whole amount to a pool.
index_deposit_swap_input_Whole(amount) == amount

\* Index-vault execute_deposit, the input of each routing swap:
\* amount.checked_div(ratio) with ratio = Uint128::new(2)
index_deposit_swap_input(amount) ==
    LET ratio == 2 IN checked_div(amount, ratio).v

\* Variant of index_deposit_response that queues the swaps before the
\* pull-transfer.
index_deposit_response_SwapFirst(allow1, allow2, c_msg, c_swap1, c_swap2) ==
    <<allow1, allow2, c_swap1, c_swap2, c_msg>>

\* Index-vault execute_deposit, the Response: add_message in this order
index_deposit_response(allow1, allow2, c_msg, c_swap1, c_swap2) ==
    <<allow1, allow2, c_msg, c_swap1, c_swap2>>

\* Variant of index_withdraw_response that queues the payout first.
index_withdraw_response_PayoutFirst(allow1, allow2, c_swap1, c_swap2, c_msg) ==
    <<c_msg, allow1, allow2, c_swap1, c_swap2>>

\* Index-vault execute_withdraw, the Response: add_message in this order
index_withdraw_response(allow1, allow2, c_swap1, c_swap2, c_msg) ==
    <<allow1, allow2, c_swap1, c_swap2, c_msg>>

\* Index-vault execute_deposit
index_execute_deposit(sender, amount, qok) ==
    LET stop(r, w, ts, V) == Outcome(r, w, ts, BALANCE_OF, <<>>, V, 0) IN
    IF ~ItemPresent(CONFIG) \/ ~ItemPresent(TOTAL_SUPPLY)
    THEN stop("err_not_found", <<>>, TOTAL_SUPPLY, -1)
    ELSE
    LET config == ItemGet(CONFIG)
        total_supply == ItemGet(TOTAL_SUPPLY)
        balance == LoadBalanceOrZero(BALANCE_OF, sender)
        balance_contract == get_token_balance_of(qok, tok)
    IN
    IF ~balance_contract.ok THEN stop("err_query", <<>>, TOTAL_SUPPLY, -1)
    ELSE
    LET V == balance_contract.v
        priced == index_deposit_shares(amount, total_supply, V)
    IN
    IF priced.result # "ok" THEN stop(priced.result, <<>>, TOTAL_SUPPLY, V)
    ELSE
    LET shares == priced.v IN
    IF AddPanics(total_supply, shares) THEN stop("panic_add", <<>>, TOTAL_SUPPLY, V)
    ELSE
    LET total_supply2 == total_supply + shares IN
    IF AddPanics(balance, shares)
    THEN stop("panic_add", <<KeyTotalSupply>>, <<total_supply2>>, V)
    ELSE
    LET balance2 == SaveBalance(BALANCE_OF, sender, balance + shares)
        wr == <<KeyTotalSupply, KeyBalance(sender)>>
    IN
    IF ~ItemPresent(SWAPVAR)
    THEN Outcome("err_not_found", wr, <<total_supply2>>, balance2, <<>>, V, 0)
    ELSE
    LET swapvar == ItemGet(SWAPVAR)
        c_msg == TransferFromMsg(config.token, sender, Vault, amount)
        allow1 == get_cw20_increase_allowance_msg(config.token, swapvar.lp_pool_1, amount)
        allow2 == get_cw20_increase_allowance_msg(config.token, swapvar.lp_pool_2, amount)
        c_swap1 == SwapMsg(swapvar.lp_pool_1, "Token1", index_deposit_swap_input(amount))
        c_swap2 == SwapMsg(swapvar.lp_pool_2, "Token1", index_deposit_swap_input(amount))
    IN
    Outcome("ok", wr, <<total_supply2>>, balance2,
            index_deposit_response(allow1, allow2, c_msg, c_swap1, c_swap2), V, shares)

\* Index-vault execute_withdraw
index_execute_withdraw(sender, share, qok) ==
    LET stop(r, w, ts, V) == Outcome(r, w, ts, BALANCE_OF, <<>>, V, 0) IN
    IF ~ItemPresent(CONFIG) \/ ~ItemPresent(SWAPVAR) \/ ~ItemPresent(TOTAL_SUPPLY)
    THEN stop("err_not_found", <<>>, TOTAL_SUPPLY, -1)
    ELSE
    LET config == ItemGet(CONFIG)
        swapvar == ItemGet(SWAPVAR)
        total_supply == ItemGet(TOTAL_SUPPLY)
        balance == LoadBalanceOrZero(BALANCE_OF, sender)
        token_1_bal == get_token_balance_of(qok, rec[1])
        token_2_bal == get_token_balance_of(qok, rec[2])
        token_bal == index_token_bal(qok, token_1_bal, token_2_bal)
    IN
    IF token_bal.result # "ok" THEN stop(token_bal.result, <<>>, TOTAL_SUPPLY, -1)
    ELSE
    LET V == token_bal.v
        redeemed == index_withdraw_amount(share, V, total_supply)
    IN
    IF redeemed.result # "ok" THEN stop(redeemed.result, <<>>, TOTAL_SUPPLY, V)
    ELSE
    LET amount == redeemed.v IN
    IF SubPanics(total_supply, share) THEN stop("panic_sub", <<>>, TOTAL_SUPPLY, V)
    ELSE
    LET total_supply2 == total_supply - share IN
    IF SubPanics(balance, share)
    THEN stop("panic_sub", <<KeyTotalSupply>>, <<total_supply2>>, V)
    ELSE
    LET c_msg == TransferMsg(config.token, sender, amount)
        allow1 == get_cw20_increase_allowance_msg(swapvar.rec_token_1, swapvar.lp_pool_1, token_1_bal.v)
        allow2 == get_cw20_increase_allowance_msg(swapvar.rec_token_2, swapvar.lp_pool_2, token_2_bal.v)
        c_swap1 == SwapMsg(swapvar.lp_pool_1, "Token1", token_1_bal.v)
        c_swap2 == SwapMsg(swapvar.lp_pool_2, "Token2", token_2_bal.v)
    IN
    Outcome("ok", <<KeyTotalSupply, KeyBalance(sender)>>, <<total_supply2>>,
            SaveBalance(BALANCE_OF, sender, balance - share),
            index_withdraw_response(allow1, allow2, c_swap1, c_swap2, c_msg), V, amount)

\* get_total_supply (both contracts): TOTAL_SUPPLY.load(..)?
get_total_supply ==
    IF ItemPresent(TOTAL_SUPPLY)
    THEN [result |-> "ok", value |-> ItemGet(TOTAL_SUPPLY)]
    ELSE [result |-> "err_not_found", value |-> -1]

\* cw-vault get_balance_of: BALANCE_OF.load(.., address)?
cw_get_balance_of(address) ==
    IF address \in DOMAIN BALANCE_OF
    THEN [result |-> "ok", value |-> BALANCE_OF[address]]
    ELSE [result |-> "err_not_found", value |-> -1]

\* Index-vault get_balance_of: BALANCE_OF.load(.., address)?
index_get_balance_of(address) ==
    IF address \in DOMAIN BALANCE_OF
    THEN [result |-> "ok", value |-> BALANCE_OF[address]]
    ELSE [result |-> "err_not_found", value |-> -1]

\* ---------------------------------------------------------------------
\* instantiate
\* ---------------------------------------------------------------------
\* deps.api.addr_validate: a malformed address is an error.
addr_validate(a) == a # ""

KeyContractInfo == <<"contract_info">>

KeyConfig == <<"Config">>

KeySwapvar == <<"swapvar">>

\* Outcome of instantiate: result, the keys written in order, and the
\* items as the handler left them.
InstOutcome(result, writes, cfg, swp, ts) ==
    [result |-> result, writes |-> writes, cfg |-> cfg, swp |-> swp, ts |-> ts]

\* cw-vault instantiate
cw_instantiate(msg) ==
    LET w0 == <<KeyContractInfo>> IN
    IF ~addr_validate(msg.owner_addr) \/ ~addr_validate(msg.token_addr)
    THEN InstOutcome("err_addr", w0, <<>>, <<>>, <<>>)
    ELSE
    LET config == [token |-> msg.token_addr, owner |-> msg.owner_addr] IN
    InstOutcome("ok", w0 \o <<KeyTotalSupply, KeyConfig>>, <<config>>, <<>>, <<0>>)

\* Index-vault instantiate
index_instantiate(msg) ==
    LET w0 == <<KeyContractInfo>> IN
    IF \/ ~addr_validate(msg.owner_addr) \/ ~addr_validate(msg.token_addr)
       \/ ~addr_validate(msg.lp_pool_1) \/ ~addr_validate(msg.lp_pool_2)
       \/ ~addr_validate(msg.rec_token1) \/ ~addr_validate(msg.rec_token2)
    THEN InstOutcome("err_addr", w0, <<>>, <<>>, <<>>)
    ELSE
    LET config == [token |-> msg.token_addr, owner |-> msg.owner_addr]
        swapvar == [lp_pool_1 |-> msg.lp_pool_1, rec_token_1 |-> msg.rec_token1,
                    lp_pool_2 |-> msg.lp_pool_2, rec_token_2 |-> msg.rec_token2]
    IN
    InstOutcome("ok", w0 \o <<KeySwapvar, KeyTotalSupply, KeyConfig>>,
                <<config>>, <<swapvar>>, <<0>>)

\* The instantiate messages tried: every field well-formed or malformed.
CwInstantiateMsgs ==
    [owner_addr : {"owner", ""}, token_addr : {Token, ""}]

IndexInstantiateMsgs ==
    [owner_addr : {"owner", ""}, token_addr : {Token, ""},
     lp_pool_1 : {PoolAddr(1), ""}, lp_pool_2 : {PoolAddr(2), ""},
     rec_token1 : {RecToken(1), ""}, rec_token2 : {RecToken(2), ""}]

\* ---------------------------------------------------------------------
\* The host: executing the returned messages, in order
\* ---------------------------------------------------------------------
PoolOf(addr) == IF addr = PoolAddr(1) THEN 1 ELSE 2

World(ok, t, r) == [ok |-> ok, tok |-> t, rec |-> r]

\* One message against the vault's holdings.  `funded`: the depositor owns
\* and has approved the amount a TransferFrom pulls.  Allowances granted by
\* the vault are bookkeeping of the token contracts and change no holding.
ApplyMsg(w, m, funded) ==
    IF ~w.ok THEN w
    ELSE IF m.kind = "IncreaseAllowance" THEN w
    ELSE IF m.kind = "TransferFrom" THEN
        IF funded /\ w.tok + m.amount <= MaxUint
        THEN World(TRUE, w.tok + m.amount, w.rec) ELSE World(FALSE, w.tok, w.rec)
    ELSE IF m.kind = "Transfer" THEN
        IF w.tok >= m.amount
        THEN World(TRUE, w.tok - m.amount, w.rec) ELSE World(FALSE, w.tok, w.rec)
    ELSE
        LET i == PoolOf(m.contract) IN
        IF m.input_token = "Token1" THEN
            \* sells underlying for receipt tokens of pool i
            IF w.tok >= m.amount /\ w.rec[i] + (m.amount \div price[i]) <= MaxUint
            THEN World(TRUE, w.tok - m.amount,
                       [w.rec EXCEPT ![i] = @ + (m.amount \div price[i])])
            ELSE World(FALSE, w.tok, w.rec)
        ELSE
            \* sells receipt tokens of pool i for underlying
            IF w.rec[i] >= m.amount /\ w.tok + m.amount * price[i] <= MaxUint
            THEN World(TRUE, w.tok + m.amount * price[i],
                       [w.rec EXCEPT ![i] = @ - m.amount])
            ELSE World(FALSE, w.tok, w.rec)

RECURSIVE ExecMsgs(_, _, _)
ExecMsgs(w, msgs, funded) ==
    IF msgs = <<>> THEN w
    ELSE ExecMsgs(ApplyMsg(w, Head(msgs), funded), Tail(msgs), funded)

\* ---------------------------------------------------------------------
\* Actions
\* ---------------------------------------------------------------------
NoLast ==
    [op |-> "none", sender |-> "-", arg |-> 0, result |-> "-", writes |-> <<>>,
     ts |-> <<>>, bal |-> NoBalances, msgs |-> <<>>, V |-> -1, out |-> 0,
     committed |-> FALSE, pre_ts |-> <<>>, pre_bal |-> NoBalances,
     pre_tok |-> 0, pre_rec |-> <<0, 0>>, rt |-> -1]

\* History: a withdraw that follows directly on the same holder's committed
\* deposit, with nothing in between but that deposit's own transfer, and
\* asks for exactly the shares the deposit minted, carries the deposited
\* amount; every other call carries -1.
RoundTripOf(op, sender, arg) ==
    IF /\ op = "withdraw"
       /\ last.op = "deposit"
       /\ last.committed
       /\ last.sender = sender
       /\ last.out = arg
       /\ tok = last.pre_tok + last.arg
    THEN last.arg
    ELSE -1

\* The record of an execute call whose handler ended with outcome o.
ExecLast(op, sender, arg, o, committed) ==
    [op |-> op, sender |-> sender, arg |-> arg, result |-> o.result,
     writes |-> o.writes, ts |-> o.ts, bal |-> o.bal, msgs |-> o.msgs,
     V |-> o.V, out |-> o.out, committed |-> committed,
     pre_ts |-> TOTAL_SUPPLY, pre_bal |-> BALANCE_OF,
     pre_tok |-> tok, pre_rec |-> rec, rt |-> RoundTripOf(op, sender, arg)]

\* The record of a query.
QueryLast(op, address, r) ==
    [NoLast EXCEPT !.op = op, !.sender = address, !.result = r.result,
                   !.out = r.value, !.ts = TOTAL_SUPPLY, !.bal = BALANCE_OF,
                   !.pre_ts = TOTAL_SUPPLY, !.pre_bal = BALANCE_OF,
                   !.pre_tok = tok, !.pre_rec = rec]

Instantiated == ItemPresent(CONFIG)

Init ==
    /\ variant \in Variants
    /\ CONFIG = <<>>
    /\ SWAPVAR = <<>>
    /\ TOTAL_SUPPLY = <<>>
    /\ BALANCE_OF = NoBalances
    /\ contract_info = <<>>
    /\ tok = 0
    /\ rec = <<0, 0>>
    /\ price = IF variant = "single" THEN <<1, 1>> ELSE <<1, MaxPrice>>
    /\ last = NoLast

\* The host's commit of an instantiate outcome.
CommitInstantiate(o) ==
    /\ last' = [NoLast EXCEPT !.op = "instantiate", !.result = o.result,
                              !.writes = o.writes, !.ts = o.ts,
                              !.committed = (o.result = "ok")]
    /\ IF o.result = "ok"
       THEN /\ CONFIG' = o.cfg
            /\ SWAPVAR' = o.swp
            /\ TOTAL_SUPPLY' = o.ts
            /\ contract_info' = <<"crates.io:cw-vault">>
       ELSE UNCHANGED <<CONFIG, SWAPVAR, TOTAL_SUPPLY, contract_info>>
    /\ UNCHANGED <<variant, BALANCE_OF, tok, rec, price>>

CwInstantiate ==
    /\ variant = "single"
    /\ ~Instantiated
    /\ \E msg \in CwInstantiateMsgs : CommitInstantiate(cw_instantiate(msg))

IndexInstantiate ==
    /\ variant = "multi"
    /\ ~Instantiated
    /\ \E msg \in IndexInstantiateMsgs : CommitInstantiate(index_instantiate(msg))

\* The host's handling of an execute outcome: on "ok" the messages run in
\* order and, if all succeed, storage and holdings are committed; in every
\* other case the call leaves nothing behind.
CommitExecute(op, sender, arg, o, funded) ==
    LET w == IF o.result = "ok"
             THEN ExecMsgs(World(TRUE, tok, rec), o.msgs, funded)
             ELSE World(FALSE, tok, rec)
    IN
    /\ last' = ExecLast(op, sender, arg, o, w.ok)
    /\ IF w.ok
       THEN /\ TOTAL_SUPPLY' = o.ts
            /\ BALANCE_OF' = o.bal
            /\ tok' = w.tok
            /\ rec' = w.rec
       ELSE UNCHANGED <<TOTAL_SUPPLY, BALANCE_OF, tok, rec>>
    /\ UNCHANGED <<variant, CONFIG, SWAPVAR, contract_info, price>>

\* The calls tried: every amount with the collaborators answering and the
\* depositor funded, and one call each with a failing collaborator query
\* and with an unfunded depositor.
ProbeAmount == 1

ExecInputs ==
    {[arg |-> a, qok |-> TRUE, funded |-> TRUE] : a \in Uint}
    \cup {[arg |-> ProbeAmount, qok |-> FALSE, funded |-> TRUE],
          [arg |-> ProbeAmount, qok |-> TRUE, funded |-> FALSE]}

CwDeposit ==
    /\ variant = "single"
    /\ Instantiated
    /\ \E sender \in Holders, in \in ExecInputs :
         CommitExecute("deposit", sender, in.arg,
                       cw_execute_deposit(sender, in.arg, in.qok), in.funded)

CwWithdraw ==
    /\ variant = "single"
    /\ Instantiated
    /\ \E sender \in Holders, in \in ExecInputs :
         /\ in.funded
         /\ CommitExecute("withdraw", sender, in.arg,
                          cw_execute_withdraw(sender, in.arg, in.qok), TRUE)

IndexDeposit ==
    /\ variant = "multi"
    /\ Instantiated
    /\ \E sender \in Holders, in \in ExecInputs :
         CommitExecute("deposit", sender, in.arg,
                       index_execute_deposit(sender, in.arg, in.qok), in.funded)

IndexWithdraw ==
    /\ variant = "multi"
    /\ Instantiated
    /\ \E sender \in Holders, in \in ExecInputs :
         /\ in.funded
         /\ CommitExecute("withdraw", sender, in.arg,
                          index_execute_withdraw(sender, in.arg, in.qok), TRUE)

GetTotalSupply ==
    /\ Instantiated
    /\ last' = QueryLast("get_total_supply", "-", get_total_supply)
    /\ UNCHANGED <<variant, storeVars, worldVars>>

CwGetBalanceOf ==
    /\ variant = "single"
    /\ Instantiated
    /\ \E address \in Holders :
         last' = QueryLast("get_balance_of", address, cw_get_balance_of(address))
    /\ UNCHANGED <<variant, storeVars, worldVars>>

IndexGetBalanceOf ==
    /\ variant = "multi"
    /\ Instantiated
    /\ \E address \in Holders :
         last' = QueryLast("get_balance_of", address, index_get_balance_of(address))
    /\ UNCHANGED <<variant, storeVars, worldVars>>

\* Someone outside the vault sends underlying tokens to the vault's address.
Donate ==
    /\ Instantiated
    /\ \E d \in 1..MaxDonate :
         /\ tok + d <= MaxUint
         /\ tok' = tok + d
         /\ last' = [NoLast EXCEPT !.op = "donate", !.arg = d]
    /\ UNCHANGED <<variant, storeVars, rec, price>>

Next ==
    \/ CwInstantiate
    \/ IndexInstantiate
    \/ CwDeposit
    \/ CwWithdraw
    \/ IndexDeposit
    \/ IndexWithdraw
    \/ GetTotalSupply
    \/ CwGetBalanceOf
    \/ IndexGetBalanceOf
    \/ Donate

Spec == Init /\ [][Next]_vars

TypeOK ==
    /\ variant \in Variants
    /\ tok \in Uint
    /\ rec \in [Pools -> Uint]
    /\ TOTAL_SUPPLY \in {<<>>} \cup {<<n>> : n \in Uint}
    /\ \A a \in DOMAIN BALANCE_OF : a \in Holders /\ BALANCE_OF[a] \in Uint

\* ---------------------------------------------------------------------
\* Properties
\* ---------------------------------------------------------------------
IsExecute == last.op \in {"deposit", "withdraw"}

ExecOk(op) == last.op = op /\ last.result = "ok"

\* TotalSupply and the caller's balance as the last call found them.
PreSupply == ItemGet(last.pre_ts)

PreBalance == LoadBalanceOrZero(last.pre_bal, last.sender)

\* C1: in both vaults, after instantiate and after every successful deposit
\* or withdraw, TotalSupply equals the sum of all ledger balances (absent
\* entries count 0), both in the storage the handler leaves and in the
\* committed storage.
C1_SupplyEqualsLedgerSum ==
    /\ Instantiated => ItemGet(TOTAL_SUPPLY) = LedgerSum(BALANCE_OF)
    /\ (IsExecute /\ last.result = "ok") => ItemGet(last.ts) = LedgerSum(last.bal)

C1_Witness ==
    /\ ExecOk("withdraw")
    /\ last.committed
    /\ last.arg > 0
    /\ \A h \in Holders : h \in DOMAIN BALANCE_OF /\ BALANCE_OF[h] > 0

\* C2: a successful deposit of A made while TotalSupply = 0 mints exactly A
\* shares whatever the vault's token balance is: TotalSupply becomes A and
\* the depositor's balance becomes A.
C2_Bootstrap ==
    (ExecOk("deposit") /\ PreSupply = 0) =>
        /\ last.out = last.arg
        /\ last.ts = <<last.arg>>
        /\ last.bal[last.sender] = last.arg
        /\ last.committed => (TOTAL_SUPPLY = <<last.arg>>
                              /\ BALANCE_OF[last.sender] = last.arg)

C2_Witness ==
    /\ ExecOk("deposit")
    /\ PreSupply = 0
    /\ last.pre_tok > 0
    /\ last.arg > 0
    /\ last.committed

\* C3: a successful deposit of A while TotalSupply = S > 0 and the vault's
\* underlying balance is V > 0 (read before the deposit's transfer runs)
\* mints exactly floor(A*S/V) shares; TotalSupply and the depositor's
\* balance both grow by exactly that number.
C3_Proportional ==
    (ExecOk("deposit") /\ PreSupply > 0 /\ last.pre_tok > 0) =>
        /\ last.V = last.pre_tok
        /\ last.out = (last.arg * PreSupply) \div last.pre_tok
        /\ last.ts = <<PreSupply + last.out>>
        /\ last.bal[last.sender] = PreBalance + last.out

C3_Witness ==
    /\ ExecOk("deposit")
    /\ PreSupply > 0
    /\ last.pre_tok > 0
    /\ (last.arg * PreSupply) % last.pre_tok # 0
    /\ last.out > 0
    /\ last.committed

\* C4: a successful withdraw of `share` burns exactly `share` from the
\* holder's balance and from TotalSupply, and its payout Transfer to the
\* holder, the last message, carries floor(share * V / TotalSupply) with V
\* and TotalSupply as read before the burn.
C4_WithdrawBurnsAndPays ==
    ExecOk("withdraw") =>
        /\ last.ts = <<PreSupply - last.arg>>
        /\ last.bal[last.sender] = PreBalance - last.arg
        /\ variant = "single" => last.V = last.pre_tok
        /\ last.msgs # <<>>
        /\ last.msgs[Len(last.msgs)] =
               TransferMsg(ItemGet(CONFIG).token, last.sender,
                           (last.arg * last.V) \div PreSupply)
        /\ \A i \in 1..(Len(last.msgs) - 1) : last.msgs[i].kind # "Transfer"

C4_Witness ==
    /\ ExecOk("withdraw")
    /\ last.arg > 0
    /\ (last.arg * last.V) % PreSupply # 0
    /\ last.out > 0
    /\ last.committed

\* TotalSupply and vault balance before the deposit of a round trip.
RoundTripSupply == PreSupply - last.arg

RoundTripBalance == last.pre_tok - last.rt

IsRoundTrip == variant = "single" /\ ExecOk("withdraw") /\ last.rt >= 0

\* C5 as stated: in the single-pool vault, for every TotalSupply S >= 0 and
\* vault balance V >= 0, depositing A and at once withdrawing the shares
\* that deposit minted pays out at most A.
C5_RoundTripAnySupply ==
    IsRoundTrip => last.out <= last.rt

\* C5, amended: the same round trip pays out at most A for every S and V
\* except S = 0 with V > 0 (a bootstrap deposit into a vault that already
\* holds tokens).
C5_RoundTrip ==
    (IsRoundTrip /\ ~(RoundTripSupply = 0 /\ RoundTripBalance > 0)) =>
        last.out <= last.rt

C5_Witness ==
    /\ IsRoundTrip
    /\ RoundTripSupply > 0
    /\ last.out > 0
    /\ last.out < last.rt

\* C6: a withdraw asking for more shares than the caller's ledger balance
\* (absent entry = 0), also when shares <= TotalSupply, is rejected, writes
\* neither TotalSupply nor a ledger entry, and returns no message.
C6_InsufficientSharesRejected ==
    (last.op = "withdraw" /\ last.arg > PreBalance) =>
        /\ last.result # "ok"
        /\ last.writes = <<>>
        /\ last.msgs = <<>>

\* C7: a Deposit with amount 0 and a Withdraw with share 0 are rejected
\* before any write to TotalSupply or the ledger and return no message.
C7_ZeroAmountRejected ==
    (IsExecute /\ last.arg = 0) =>
        /\ last.result # "ok"
        /\ last.writes = <<>>
        /\ last.msgs = <<>>

\* C8: GetBalanceOf answers 0, not an error, for a holder without a ledger
\* entry.
C8_BalanceQueryAbsentIsZero ==
    (last.op = "get_balance_of" /\ last.sender \notin DOMAIN BALANCE_OF) =>
        /\ last.result = "ok"
        /\ last.out = 0

\* C9: whenever a deposit or withdraw fails, TotalSupply and every ledger
\* entry are as before the call, no message is returned, and the failure
\* was not reached after a write to TotalSupply or the ledger.
C9_AtomicFailure ==
    (IsExecute /\ last.result # "ok") =>
        /\ last.writes = <<>>
        /\ last.ts = last.pre_ts
        /\ last.bal = last.pre_bal
        /\ last.msgs = <<>>
        /\ TOTAL_SUPPLY = last.pre_ts
        /\ BALANCE_OF = last.pre_bal

\* C10: in the multi-pool vault the value V a withdraw uses is the sum of
\* the two receipt-token holdings, each converted through its pool; the
\* payout is share*V/TotalSupply rounded down, and no smaller V gives a
\* larger payout.
C10_MultiPoolValuation ==
    (variant = "multi" /\ last.op = "withdraw" /\ last.V >= 0) =>
        /\ last.V = token_conversion(TRUE, 1, last.pre_rec[1]).v
                    + token_conversion(TRUE, 2, last.pre_rec[2]).v
        /\ last.result = "ok" =>
              /\ last.out * PreSupply <= last.arg * last.V
              /\ last.arg * last.V < (last.out + 1) * PreSupply
              /\ \A V2 \in 0..last.V : (last.arg * V2) \div PreSupply <= last.out

C10_Witness ==
    /\ variant = "multi"
    /\ ExecOk("withdraw")
    /\ last.pre_rec[1] > 0
    /\ last.pre_rec[2] > 0
    /\ price[2] > 1
    /\ last.out > 0

\* Positions of the messages of one kind in the last Response.
MsgIndices(kind) == {i \in 1..Len(last.msgs) : last.msgs[i].kind = kind}

\* C11: every successful deposit queues exactly one pull-transfer
\* (TransferFrom of `amount` from the depositor to the vault); every
\* increase-allowance comes before it and every swap after it; in the
\* single-pool vault the queue is that one transfer alone.
C11_DepositInstructionOrder ==
    ExecOk("deposit") =>
        /\ \E k \in 1..Len(last.msgs) :
              /\ last.msgs[k] = TransferFromMsg(ItemGet(CONFIG).token, last.sender,
                                                Vault, last.arg)
              /\ MsgIndices("TransferFrom") = {k}
              /\ \A i \in MsgIndices("IncreaseAllowance") : i < k
              /\ \A i \in MsgIndices("Swap") : k < i
        /\ variant = "single" => Len(last.msgs) = 1

C11_Witness ==
    /\ variant = "multi"
    /\ ExecOk("deposit")
    /\ last.arg > 1
    /\ last.committed
    /\ MsgIndices("Swap") # {}
    /\ MsgIndices("IncreaseAllowance") # {}

\* The pool a swap or an allowance of the last Response concerns.
MsgPool(i) ==
    IF last.msgs[i].kind = "Swap" THEN last.msgs[i].contract
    ELSE last.msgs[i].recipient

\* C12: every successful withdraw queues the payout Transfer of the redeemed
\* amount to the holder last, after every increase-allowance and swap, each
\* pool's allowance before that pool's swap, and burns the full share
\* amount; a withdraw that does not succeed queues nothing, and a call that
\* is not committed leaves supply, ledger and holdings as they were.
C12_WithdrawInstructionOrder ==
    last.op = "withdraw" =>
        /\ last.result = "ok" =>
              /\ last.msgs # <<>>
              /\ last.msgs[Len(last.msgs)] =
                     TransferMsg(ItemGet(CONFIG).token, last.sender, last.out)
              /\ MsgIndices("Transfer") = {Len(last.msgs)}
              /\ \A i \in MsgIndices("Swap") :
                    \E j \in MsgIndices("IncreaseAllowance") :
                        j < i /\ MsgPool(j) = MsgPool(i)
              /\ variant = "multi" =>
                    (Cardinality(MsgIndices("Swap")) = 2
                     /\ Cardinality(MsgIndices("IncreaseAllowance")) = 2)
              /\ last.ts = <<PreSupply - last.arg>>
              /\ last.bal[last.sender] = PreBalance - last.arg
        /\ last.result # "ok" => (last.msgs = <<>> /\ ~last.committed)
        /\ last.committed => (TOTAL_SUPPLY = last.ts /\ BALANCE_OF = last.bal)
        /\ ~last.committed =>
              /\ TOTAL_SUPPLY = last.pre_ts
              /\ BALANCE_OF = last.pre_bal
              /\ tok = last.pre_tok
              /\ rec = last.pre_rec

C12_Witness ==
    /\ variant = "multi"
    /\ ExecOk("withdraw")
    /\ last.committed
    /\ last.arg > 0
    /\ last.out > 0
    /\ last.pre_rec[2] > 0

\* C13: instantiate with well-formed identities leaves TotalSupply = 0,
\* every holder balance reading 0, Config stored (and the RoutingTable in
\* the multi-pool vault); instantiate with a malformed identity is rejected
\* before any write to storage.
C13_Instantiate ==
    last.op = "instantiate" =>
        /\ last.result = "ok" =>
              /\ TOTAL_SUPPLY = <<0>>
              /\ \A h \in Holders : LoadBalanceOrZero(BALANCE_OF, h) = 0
              /\ ItemPresent(CONFIG)
              /\ variant = "multi" => ItemPresent(SWAPVAR)
        /\ last.result # "ok" => last.writes = <<>>

\* The receipt-token holding a swap or allowance of the last Response is
\* about, as the withdraw found it.
MsgHolding(i) == last.pre_rec[PoolOf(MsgPool(i))]

\* C14: the swaps and allowances a multi-pool withdraw of `share` queues
\* carry, for each receipt token, only the part of the vault's holding
\* proportional to the redemption, holding * share / TotalSupply.
C14_ProportionalConversion ==
    (variant = "multi" /\ ExecOk("withdraw") /\ last.arg > 0) =>
        \A i \in MsgIndices("Swap") \cup MsgIndices("IncreaseAllowance") :
            last.msgs[i].amount = (MsgHolding(i) * last.arg) \div PreSupply

\* Everything the multi-pool vault holds, in underlying: the underlying
\* itself plus each receipt-token holding at its pool's price.
TotalValue == tok + rec[1] * price[1] + rec[2] * price[2]

\* C15: in the multi-pool vault, once a holder has withdrawn part of the
\* supply, was paid, and the instructions ran, a holder who then withdraws s shares is
\* paid floor(s * V / TotalSupply) of the vault's whole remaining value,
\* underlying and receipt tokens together.
C15_LaterWithdrawProportional ==
    [][(/\ variant = "multi"
        /\ ExecOk("withdraw")
        /\ last.committed
        /\ 0 < last.arg
        /\ last.arg < PreSupply
        /\ last.out > 0
        /\ last'.op = "withdraw"
        /\ last'.result = "ok")
       => last'.out = (last'.arg * TotalValue) \div ItemGet(TOTAL_SUPPLY)]_vars

\* C16: in the multi-pool vault, with every queued instruction executed,
\* TotalSupply > 0 implies that the value a deposit divides by is > 0, so a
\* deposit into a vault with shares outstanding never fails with division
\* by zero.
C16_DepositValuePositive ==
    (variant = "multi" /\ last.op = "deposit" /\ last.V >= 0 /\ PreSupply > 0) =>
        /\ last.V > 0
        /\ last.result # "err_divide_by_zero"

\* C17: a successful multi-pool deposit of `amount` queues exactly two
\* swaps, one to each routing pool, each with input floor(amount / 2), so
\* that what is routed is at most what is pulled from the depositor; and
\* each pool is granted an allowance on the underlying token of at least
\* what its swap consumes.
C17_DepositRouting ==
    (variant = "multi" /\ ExecOk("deposit")) =>
        LET swapvar == ItemGet(SWAPVAR)
            config == ItemGet(CONFIG)
            swaps == MsgIndices("Swap")
        IN
        /\ Cardinality(swaps) = 2
        /\ swapvar.lp_pool_1 # swapvar.lp_pool_2
        /\ \A pool \in {swapvar.lp_pool_1, swapvar.lp_pool_2} :
              \E i \in swaps :
                  /\ last.msgs[i].contract = pool
                  /\ last.msgs[i].amount = last.arg \div 2
                  /\ \E j \in MsgIndices("IncreaseAllowance") :
                        /\ last.msgs[j].contract = config.token
                        /\ last.msgs[j].recipient = pool
                        /\ last.msgs[j].amount >= last.msgs[i].amount
        /\ \E i, j \in swaps, k \in MsgIndices("TransferFrom") :
              /\ i < j
              /\ last.msgs[i].amount + last.msgs[j].amount <= last.msgs[k].amount

C17_Witness ==
    /\ variant = "multi"
    /\ ExecOk("deposit")
    /\ last.committed
    /\ last.arg = 3
    /\ rec[1] > 0
    /\ tok > 0

QueryOps == {"get_total_supply", "get_balance_of"}

\* The entries of ledger b2 other than holder h's are those of ledger b1.
OthersUnchanged(b1, b2, h) ==
    \A x \in Holders \ {h} :
        /\ x \in DOMAIN b2 <=> x \in DOMAIN b1
        /\ LoadBalanceOrZero(b2, x) = LoadBalanceOrZero(b1, x)

\* C18: a deposit or withdraw by holder h writes only h's ledger entry and
\* TotalSupply, so every other holder's balance is as before, both in the
\* storage the handler leaves and in the committed storage; a query writes
\* nothing; and no deposit, withdraw or query after instantiate modifies
\* Config or the RoutingTable.
C18_Frame ==
    [][(Instantiated /\ last'.op \in {"deposit", "withdraw"} \cup QueryOps) =>
          /\ CONFIG' = CONFIG
          /\ SWAPVAR' = SWAPVAR
          /\ last'.op \in {"deposit", "withdraw"} =>
                /\ \A i \in 1..Len(last'.writes) :
                      last'.writes[i] \in {KeyTotalSupply, KeyBalance(last'.sender)}
                /\ OthersUnchanged(BALANCE_OF, last'.bal, last'.sender)
                /\ OthersUnchanged(BALANCE_OF, BALANCE_OF', last'.sender)
          /\ last'.op \in QueryOps =>
                /\ last'.writes = <<>>
                /\ TOTAL_SUPPLY' = TOTAL_SUPPLY
                /\ BALANCE_OF' = BALANCE_OF]_vars

C18_Witness ==
    /\ IsExecute
    /\ last.result = "ok"
    /\ last.committed
    /\ last.out > 0
    /\ BALANCE_OF # last.pre_bal
    /\ \E x \in Holders \ {last.sender} :
          /\ x \in DOMAIN BALANCE_OF
          /\ BALANCE_OF[x] > 0
          /\ BALANCE_OF[x] = last.pre_bal[x]

\* C19: in the single-pool vault, where the underlying balance changes only
\* through executed deposit and withdraw instructions and through tokens
\* sent to the vault, the vault's balance V is never below TotalSupply, so
\* TotalSupply > 0 implies V > 0 and no deposit fails with division by
\* zero.
C19_PriceAtLeastOne ==
    (variant = "single" /\ Instantiated) =>
        /\ tok >= ItemGet(TOTAL_SUPPLY)
        /\ ItemGet(TOTAL_SUPPLY) > 0 => tok > 0
        /\ last.op = "deposit" =>
              /\ last.result # "err_divide_by_zero"
              /\ (last.V >= 0 /\ PreSupply > 0) => last.V >= PreSupply

C19_Witness ==
    /\ variant = "single"
    /\ ExecOk("deposit")
    /\ last.committed
    /\ PreSupply > 0
    /\ last.V > PreSupply
    /\ last.out > 0
    /\ tok > ItemGet(TOTAL_SUPPLY)

\* C20: every successful deposit of amount > 0 into a vault with
\* TotalSupply > 0 and value V > 0 mints at least one share: no depositor
\* hands over a positive amount and receives zero shares.
C20_DepositMintsShare ==
    (/\ ExecOk("deposit")
     /\ last.committed
     /\ last.arg > 0
     /\ PreSupply > 0
     /\ last.V > 0) => last.out >= 1

\* C21: the amount a successful withdraw pays never exceeds the vault
\* value V that withdraw read, and a withdraw of the entire TotalSupply
\* pays exactly V; in the single-pool vault V is the vault's underlying
\* balance, so the payout Transfer never exceeds that balance.
C21_Solvency ==
    ExecOk("withdraw") =>
        /\ last.V >= 0
        /\ last.out <= last.V
        /\ last.arg = PreSupply => last.out = last.V
        /\ variant = "single" =>
              /\ last.V = last.pre_tok
              /\ \A i \in MsgIndices("Transfer") :
                    last.msgs[i].amount <= last.pre_tok

C21_Witness ==
    /\ ExecOk("withdraw")
    /\ last.committed
    /\ last.arg = PreSupply
    /\ PreSupply > 0
    /\ last.V > PreSupply
    /\ last.out = last.V
    /\ MsgIndices("Transfer") # {}

====
